---- MODULE Spec2Model ----
(***************************************************************************)
(* Model of fastapi_third_party_auth.auth.Auth: the two authentication     *)
(* entry points (required / optional), their shared routine                *)
(* authenticate_user, the key lookup _find_key, the claim verification     *)
(* done by jose.jwt.decode as it is called here, the authorized-party      *)
(* rule, the scope check and the construction of the identity record, over *)
(* the TTL cache of the provider's discovery document and JWKS.            *)
(*                                                                         *)
(* Conventions.  Optional values are sequences of length 0 or 1 (None is   *)
(* <<>>).  Python dicts are functions whose domain is the set of keys      *)
(* present, so a missing key is a missing domain element (KeyError).       *)
(* Strings that the code inspects character by character (the scheme, the  *)
(* scope string) are sequences of one-character strings.  An `aud` claim   *)
(* is [isList, vals]: a bare string "a" is [isList |-> FALSE, vals |->     *)
(* <<"a">>].  The claims whose JSON type jwt.decode tests (iat, sub, jti)  *)
(* are [type, v]; exp and nbf are integers in every token of the model.    *)
(*                                                                         *)
(* required and optional are plain functions, which the framework runs on  *)
(* worker threads: calls on one instance overlap.  A call blocks in each   *)
(* of its reads of the metadata cache (lines 264, 204, 208); a step of the *)
(* model is one such read together with the code of the call up to its     *)
(* next read or its end.  The clock, the provider and the other calls move *)
(* between the steps of a call.                                            *)
(***************************************************************************)
EXTENDS Integers, Sequences, FiniteSets, TLC

\* Clock horizon of the model (in clock units).
MaxTime == 2

\* signature_cache_ttl of the instance, in clock units (scaled down from
\* the default of 3600 seconds).
signature_cache_ttl == 1

None == <<>>
Some(x) == <<x>>

\* The element of a one-element set.  `The({ e(x) : x \in {v} })` is e(v)
\* with v evaluated once.
The(S) == CHOOSE x \in S : TRUE

-----------------------------------------------------------------------------
(* Strings *)

Str(s) == [isList |-> FALSE, vals |-> <<s>>]
List(l) == [isList |-> TRUE, vals |-> l]

\* The ASCII letters, upper and lower case.
UpperCase ==
  <<"A", "B", "C", "D", "E", "F", "G", "H", "I", "J", "K", "L", "M",
    "N", "O", "P", "Q", "R", "S", "T", "U", "V", "W", "X", "Y", "Z">>

LowerCase ==
  <<"a", "b", "c", "d", "e", "f", "g", "h", "i", "j", "k", "l", "m",
    "n", "o", "p", "q", "r", "s", "t", "u", "v", "w", "x", "y", "z">>

\* str.lower() on one character: an upper-case ASCII letter becomes its
\* lower-case letter, any other ASCII character is kept.
LowerChar(c) ==
  IF \E i \in 1..Len(UpperCase) : UpperCase[i] = c
  THEN LowerCase[CHOOSE i \in 1..Len(UpperCase) : UpperCase[i] = c]
  ELSE c

\* Lower without the case folding.
Lower_AsIs(s) == s

Lower(s) == [i \in 1..Len(s) |-> LowerChar(s[i])]

bearer == <<"b", "e", "a", "r", "e", "r">>

\* str.split(" "): cut at every single space; empty pieces are kept and the
\* empty string splits to one empty piece.
RECURSIVE Split(_)
Split(s) ==
  IF \E i \in 1..Len(s) : s[i] = " "
  THEN LET i == CHOOSE k \in 1..Len(s) :
                  s[k] = " " /\ \A j \in 1..(k - 1) : s[j] # " "
       IN  <<SubSeq(s, 1, i - 1)>> \o Split(SubSeq(s, i + 1, Len(s)))
  ELSE <<s>>

Range(l) == {l[i] : i \in 1..Len(l)}

\* JSON values of the claims whose type is tested: a number and a string
\* (one that does not spell a number).
JInt(s) == [type |-> "int", v |-> s]
JStr(s) == [type |-> "str", v |-> s]

-----------------------------------------------------------------------------
(* The provider: discovery document and JWKS payloads *)

\* The discovery document served at openid_connect_url.
ProviderMeta ==
  [jwks_uri |-> "jwks", authorization_endpoint |-> "authz",
   id_token_signing_alg_values_supported |-> <<"RS256">>]

K1 == ("kid" :> "k1") @@ ("n" :> "m1")
K2 == ("kid" :> "k2") @@ ("n" :> "m2")
K1b == ("kid" :> "k1") @@ ("n" :> "m2")
KNoKid == ("n" :> "m1")

StdJwks == [keys |-> <<K1, K2>>]

\* JWKS payloads a provider may serve: well formed, empty, lacking "keys",
\* with an entry lacking "kid" before or after a usable entry, and with a
\* repeated kid.
JwksPayloads ==
  { StdJwks,
    [keys |-> <<K1>>],
    [keys |-> <<>>],
    [error |-> "not found"],
    [keys |-> <<KNoKid, K1>>],
    [keys |-> <<K1, KNoKid>>],
    [keys |-> <<K1b, K1>>] }

\* Reachability of the provider: everything answers, the discovery URL does
\* not answer, or only the jwks_uri does not answer.
NetStates == {"up", "disc_down", "jwks_down"}

-----------------------------------------------------------------------------
(* Configuration of the Auth instance *)

ScopeR == <<"r">>
ScopeW == <<"w">>
ScopeRW == <<"r", "w">>
ScopeX == <<"x">>
ScopeEmpty == <<>>

\* idtoken_model: the identity-record type, given by the claims its
\* constructor requires.  IDToken is the default type (the required claims
\* of an OIDC ID token); OpenModel is a caller-supplied type that requires
\* none.
IDToken == [required |-> {"iss", "sub", "aud", "exp", "iat"}]
OpenModel == [required |-> {}]

DefaultCfg ==
  [issuer |-> Some("iss1"), client_id |-> Some("a"), scopes |-> <<>>,
   idtoken_model |-> IDToken]

OpenCfg == [DefaultCfg EXCEPT !.idtoken_model = OpenModel]

Configs ==
  { [issuer |-> i, client_id |-> c, scopes |-> <<>>, idtoken_model |-> IDToken] :
      i \in {None, Some("iss1")}, c \in {None, Some("a")} }
  \cup { [DefaultCfg EXCEPT !.scopes = <<ScopeW>>], OpenCfg }

-----------------------------------------------------------------------------
(* Tokens and credentials *)

FarExp == MaxTime + 2

Header(kid, alg) == IF kid = None THEN ("alg" :> alg)
                    ELSE ("alg" :> alg) @@ ("kid" :> kid[1])

\* The claims of a token: exp, iss, sub and iat always, the others when
\* given.
Payload(exp, iss, aud, azp, scope) ==
  LET base == ("exp" :> exp) @@ ("iss" :> iss) @@ ("sub" :> JStr("u1"))
              @@ ("iat" :> JInt("0"))
      a == IF aud = None THEN base ELSE base @@ ("aud" :> aud[1])
      z == IF azp = None THEN a ELSE a @@ ("azp" :> azp[1])
  IN  IF scope = None THEN z ELSE z @@ ("scope" :> scope[1])

\* A JWT: its header, the key material that produced its signature, and
\* its payload.
Token(h, signer, p) == [header |-> h, signer |-> signer, payload |-> p]

GoodPayload == Payload(FarExp, "iss1", Some(Str("a")), None, None)
GoodToken == Token(Header(Some("k1"), "RS256"), "m1", GoodPayload)

\* Tokens that differ in what the key lookup and the signature check see.
KeyTokens ==
  { Token(Header(k, "RS256"), s, Payload(e, "iss1", Some(Str("a")), None, None)) :
      k \in {None, Some("k1"), Some("k2")}, s \in {"m1", "m2"}, e \in {0, FarExp} }
  \cup { Token(Header(Some("k1"), "HS256"), "m1", GoodPayload) }

AudValues ==
  { None, Some(Str("a")), Some(Str("b")), Some(List(<<>>)),
    Some(List(<<"a">>)), Some(List(<<"a", "b">>)), Some(List(<<"b">>)) }

\* Tokens that differ in the claims jwt.decode and the azp rule check.
ClaimTokens ==
  { Token(Header(Some("k1"), "RS256"), "m1", Payload(FarExp, i, a, None, None)) :
      i \in {"iss1", "iss2"}, a \in AudValues }
  \cup
  { Token(Header(Some("k1"), "RS256"), "m1", Payload(FarExp, "iss1", a, Some("a"), None)) :
      a \in {Some(Str("a")), Some(List(<<"a", "b">>)), Some(List(<<"b">>))} }
  \cup
  { Token(Header(Some("k1"), "RS256"), "m1", Payload(0, i, a, None, None)) :
      i \in {"iss1", "iss2"}, a \in {Some(Str("b")), Some(List(<<"a">>))} }

\* The payload p with claim k set to v, and without the claims ks.
With(p, k, v) == (k :> v) @@ p
Without(p, ks) == [k \in DOMAIN p \ ks |-> p[k]]

\* Tokens that differ in the claims jwt.decode validates besides exp, aud
\* and iss (iat, nbf, sub, jti), and in the claims the identity record
\* requires.
LibraryPayloads ==
  { With(GoodPayload, "nbf", 0),
    With(GoodPayload, "nbf", FarExp),
    With(With(GoodPayload, "nbf", FarExp), "exp", 0),
    With(With(GoodPayload, "nbf", FarExp), "iat", JStr("soon")),
    With(GoodPayload, "iat", JStr("soon")),
    With(GoodPayload, "sub", JInt("7")),
    With(With(GoodPayload, "sub", JInt("7")), "iss", "iss2"),
    With(GoodPayload, "jti", JStr("j1")),
    With(GoodPayload, "jti", JInt("7")),
    With(With(GoodPayload, "jti", JInt("7")), "sub", JInt("7")),
    With(With(GoodPayload, "jti", JInt("7")), "aud", List(<<"a">>)),
    Without(GoodPayload, {"sub"}),
    Without(GoodPayload, {"iat"}),
    Without(GoodPayload, {"iss"}),
    Without(GoodPayload, {"exp"}) }

LibraryTokens ==
  { Token(Header(Some("k1"), "RS256"), "m1", p) : p \in LibraryPayloads }

\* Tokens presented to an instance whose identity record requires no claim.
OpenModelTokens ==
  { Token(Header(Some("k1"), "RS256"), "m1", p) :
      p \in { Without(GoodPayload, {"sub"}), Without(GoodPayload, {"iat"}),
               Without(GoodPayload, {"aud"}), Without(GoodPayload, {"exp"}) } }

\* Tokens with a defective claim, presented to an endpoint that declares a
\* scope they do not carry.
DefectiveTokens ==
  { Token(Header(Some("k1"), "RS256"), "m1", Payload(e, i, a, None, None)) :
      e \in {0, FarExp}, i \in {"iss2"},
      a \in {Some(Str("a")), Some(List(<<"a", "b">>))} }

ScopeStrings ==
  { <<>>, <<"r">>, <<"w", " ", "r">>, <<"r", " ", " ", "w">>, <<"r", "w">>,
    <<"r", " ", "w", " ", "x">> }

\* Tokens that differ in the scope claim.
ScopeTokens ==
  { Token(Header(Some("k1"), "RS256"), "m1",
          Payload(FarExp, "iss1", Some(Str("a")), None, Some(s))) :
      s \in ScopeStrings }

\* HTTPAuthorizationCredentials: scheme and credentials.
Cred(scheme, tok) == Some([scheme |-> scheme, credentials |-> tok])

Schemes ==
  { bearer,
    <<"B", "e", "a", "r", "e", "r">>,
    <<"B", "E", "A", "R", "E", "R">>,
    <<"B", "a", "s", "i", "c">>,
    <<"D", "i", "g", "e", "s", "t">> }


\* Scopes an endpoint may declare (security_scopes.scopes).
EndpointScopes == { <<>>, <<ScopeR>>, <<ScopeR, ScopeW>>, <<ScopeEmpty>> }

-----------------------------------------------------------------------------------------------------------------------------------------------------
(* discovery.configure(cache_ttl): the provider-metadata cache.  The entry *)
(* of the instance holds the discovery document and the JWKS, each with    *)
(* the time it was fetched (None before the first fetch).                  *)

EmptyCache == [doc |-> None, keys |-> None]

\* A cached part is usable until more than signature_cache_ttl has elapsed
\* since it was fetched.
CacheFresh(part, t) ==
  part # None /\ ~(t - part[1].at > signature_cache_ttl)

\* The payload served at the JWKS URL `uri`.
Serves(uri, remote) ==
  IF uri = ProviderMeta.jwks_uri THEN remote ELSE [error |-> "not found"]

\* discover.auth_server(openid_connect_url=...) at time t: a usable
\* document is served without network traffic; otherwise the discovery
\* document is fetched and then, unless the cached JWKS is still within its
\* TTL, the JWKS it names, and what was fetched is stored under the time of
\* the read.  A fetch that finds the provider unreachable raises
\* ConnectionError and leaves the entry as it was.  fd and fj count the
\* requests sent for the discovery document and for the JWKS.
auth_server(cache, t, net, remote) ==
  IF CacheFresh(cache.doc, t)
  THEN [ok |-> TRUE, cache |-> cache, fd |-> 0, fj |-> 0,
        val |-> Some(cache.doc[1].val)]
  ELSE IF net = "disc_down"
  THEN [ok |-> FALSE, cache |-> cache, fd |-> 1, fj |-> 0, val |-> None]
  ELSE IF CacheFresh(cache.keys, t)
  THEN [ok |-> TRUE,
        cache |-> [cache EXCEPT !.doc = Some([val |-> ProviderMeta, at |-> t])],
        fd |-> 1, fj |-> 0, val |-> Some(ProviderMeta)]
  ELSE IF net = "jwks_down"
  THEN [ok |-> FALSE, cache |-> cache, fd |-> 1, fj |-> 1, val |-> None]
  ELSE [ok |-> TRUE,
        cache |-> [doc |-> Some([val |-> ProviderMeta, at |-> t]),
                   keys |-> Some([val |-> Serves(ProviderMeta.jwks_uri, remote),
                                  at |-> t])],
        fd |-> 1, fj |-> 1, val |-> Some(ProviderMeta)]

\* discover.public_keys(oidc_discoveries) at time t: the JWKS of the
\* provider whose discovery document is passed.  A usable JWKS is served
\* without network traffic; otherwise it is fetched from the jwks_uri of
\* the document and stored under the time of the read.  The discovery
\* document is not fetched here.
public_keys(oidc_discoveries, cache, t, net, remote) ==
  IF CacheFresh(cache.keys, t)
  THEN [ok |-> TRUE, cache |-> cache, fd |-> 0, fj |-> 0,
        val |-> Some(cache.keys[1].val)]
  ELSE IF net = "jwks_down"
  THEN [ok |-> FALSE, cache |-> cache, fd |-> 0, fj |-> 1, val |-> None]
  ELSE The({ [ok |-> TRUE,
              cache |-> [cache EXCEPT !.keys = Some([val |-> j, at |-> t])],
              fd |-> 0, fj |-> 1, val |-> Some(j)] :
             j \in { Serves(oidc_discoveries.jwks_uri, remote) } })

\* discover.signing_algos(oidc_discoveries)
signing_algos(doc) == doc.id_token_signing_alg_values_supported

\* discover.authorization_url(oidc_discoveries)
authorization_url(doc) == doc.authorization_endpoint

\* A read through a cache that never holds anything.
discover_NoCache(read, arg, cache, t, net, remote) ==
  IF read = "auth_server" THEN auth_server(EmptyCache, t, net, remote)
  ELSE public_keys(arg[1], EmptyCache, t, net, remote)

\* self.discover.<read>(...): every read of every call goes through the one
\* cache that __init__ configured for the instance.  arg is the discovery
\* document passed to public_keys (None for auth_server, which is given the
\* openid_connect_url of the instance).
discover(read, arg, cache, t, net, remote) ==
  IF read = "auth_server" THEN auth_server(cache, t, net, remote)
  ELSE public_keys(arg[1], cache, t, net, remote)

\* What a call has got back from one read of the cache made at time t: the
\* value or the ConnectionError (ok = FALSE), the requests the read sent and
\* the time at which it sent them (None when it sent none).
Observed(read, x, t) ==
  [read |-> read, ok |-> x.ok, val |-> x.val, fd |-> x.fd, fj |-> x.fj,
   sentAt |-> IF x.fd + x.fj > 0 THEN Some(t) ELSE None]

-----
(* Exceptions *)

Exc(type, msg) == [type |-> type, msg |-> msg]

\* The exception classes caught by
\* `except (ExpiredSignatureError, JWTError, JWTClaimsError)`: JWTError and
\* its subclasses.  JWKError and ConnectionError are not among them.
CaughtAsJWTError(e) ==
  e.type \in {"JWTError", "ExpiredSignatureError", "JWTClaimsError"}

-----------------------------------------------------------------------------
(* Auth._find_key *)

\* The loop with the last matching entry winning instead of the first.
RECURSIVE FindLoop_LastMatch(_, _, _)
FindLoop_LastMatch(keys, kid, i) ==
  IF i > Len(keys)
  THEN [raised |-> Some(Exc("JWKError", "Could not find JWK 'kid'")), key |-> None]
  ELSE IF "kid" \notin DOMAIN keys[i]
  THEN [raised |-> Some(Exc("JWKError", "field 'kid' is missing from JWK")),
        key |-> None]
  ELSE The({ IF rest.key # None \/ keys[i].kid # kid
             THEN rest
             ELSE [raised |-> None, key |-> Some(keys[i])] :
             rest \in { FindLoop_LastMatch(keys, kid, i + 1) } })

\* The loop over the JWKS entries, from entry i on.
RECURSIVE FindLoop(_, _, _)
FindLoop(keys, kid, i) ==
  IF i > Len(keys)
  THEN [raised |-> Some(Exc("JWKError", "Could not find JWK 'kid'")), key |-> None]
  ELSE IF "kid" \notin DOMAIN keys[i]
  THEN [raised |-> Some(Exc("JWKError", "field 'kid' is missing from JWK")),
        key |-> None]
  ELSE IF keys[i].kid = kid
  THEN [raised |-> None, key |-> Some(keys[i])]
  ELSE FindLoop(keys, kid, i + 1)

\* The lookup proper, on a JWKS payload and a token.
LookupKey(jwks, token) ==
  IF "keys" \notin DOMAIN jwks
  THEN [raised |-> Some(Exc("JWKError", "Badly formed JWKs_uri")), key |-> None]
  ELSE IF "kid" \notin DOMAIN token.header
  THEN [raised |-> Some(Exc("JWTError", "field 'kid' is missing from JWT headers")),
        key |-> None]
  ELSE FindLoop(jwks.keys, token.header.kid, 1)

\* _find_key(token), given what its reads of the cache have returned so far
\* (obs, in order: the discovery document at line 204, the JWKS at line
\* 208).  With a read still to be made the lookup waits for it; the read of
\* the JWKS is made with the document that the read at line 204 returned.  Neither
\* read is guarded: a ConnectionError raised by a refresh leaves _find_key
\* as it is.
_find_key(token, obs) ==
  IF Len(obs) = 0
  THEN [waits |-> Some([read |-> "auth_server", arg |-> None]), raised |-> None,
        key |-> None]
  ELSE IF ~obs[1].ok
  THEN [waits |-> None, raised |-> Some(Exc("ConnectionError", "connection failed")),
        key |-> None]
  ELSE IF Len(obs) = 1
  THEN [waits |-> Some([read |-> "public_keys", arg |-> obs[1].val]),
        raised |-> None, key |-> None]
  ELSE IF ~obs[2].ok
  THEN [waits |-> None, raised |-> Some(Exc("ConnectionError", "connection failed")),
        key |-> None]
  ELSE The({ [waits |-> None, raised |-> k.raised, key |-> k.key] :
             k \in { LookupKey(obs[2].val[1], token) } })

-----------------------------------------------------------------------------
(* jose.jwt.decode as authenticate_user calls it *)

\* jwt_decode with the issuer checked before the audience.
jwt_decode_IssuerFirst(token, key, algorithms, issuer, audience, t) ==
  LET c == token.payload
      algOk == token.header.alg \in Range(algorithms)
      sigOk == key.n = token.signer
      iatOk == ~("iat" \in DOMAIN c /\ c.iat.type # "int")
      nbfOk == ~("nbf" \in DOMAIN c /\ c.nbf > t)
      expOk == ~("exp" \in DOMAIN c /\ c.exp < t)
      audOk == "aud" \notin DOMAIN c \/ audience[1] \in Range(c.aud.vals)
      issOk == "iss" \in DOMAIN c /\ c.iss = issuer[1]
      subOk == ~("sub" \in DOMAIN c /\ c.sub.type # "str")
      jtiOk == ~("jti" \in DOMAIN c /\ c.jti.type # "str")
      s1 == <<"signature">>
      s2 == s1 \o <<"iat">>
      s3 == s2 \o <<"nbf">>
      s4 == s3 \o <<"expiry">>
      s5 == IF issuer = None THEN s4 ELSE s4 \o <<"issuer">>
      s6 == IF audience = None THEN s5 ELSE s5 \o <<"audience">>
      s7 == s6 \o <<"sub">>
      s8 == s7 \o <<"jti">>
      Raise(type, msg, steps) ==
        [raised |-> Some(Exc(type, msg)), claims |-> None, steps |-> steps]
  IN  IF ~algOk
      THEN Raise("JWTError", "The specified alg value is not allowed", s1)
      ELSE IF ~sigOk
      THEN Raise("JWTError", "Signature verification failed.", s1)
      ELSE IF ~iatOk
      THEN Raise("JWTClaimsError", "Issued At claim (iat) must be an integer.", s2)
      ELSE IF ~nbfOk
      THEN Raise("JWTClaimsError", "The token is not yet valid (nbf)", s3)
      ELSE IF ~expOk
      THEN Raise("ExpiredSignatureError", "Signature has expired.", s4)
      ELSE IF issuer # None /\ ~issOk
      THEN Raise("JWTClaimsError", "Invalid issuer", s5)
      ELSE IF audience # None /\ ~audOk
      THEN Raise("JWTClaimsError", "Invalid audience", s6)
      ELSE IF ~subOk
      THEN Raise("JWTClaimsError", "Subject must be a string.", s7)
      ELSE IF ~jtiOk
      THEN Raise("JWTClaimsError", "JWT ID must be a string.", s8)
      ELSE [raised |-> None, claims |-> Some(c), steps |-> s8]

\* jwt.decode(token, key, algorithms, issuer=, audience=, options=) at time
\* t, with verify_iss = (issuer is not None), verify_aud = (audience is not
\* None) and verify_at_hash = False; every other validation keeps its
\* default (on).  The signature is verified first (the header's alg must be
\* one of `algorithms`, then the signature must be the key's), then the
\* claims in jose's order: iat, nbf, exp, aud, iss, sub, jti.  A claim that
\* is absent passes its validation, except iss when an issuer is given.
\* steps lists the validations that ran.
jwt_decode(token, key, algorithms, issuer, audience, t) ==
  LET c == token.payload
      algOk == token.header.alg \in Range(algorithms)
      sigOk == key.n = token.signer
      iatOk == ~("iat" \in DOMAIN c /\ c.iat.type # "int")
      nbfOk == ~("nbf" \in DOMAIN c /\ c.nbf > t)
      expOk == ~("exp" \in DOMAIN c /\ c.exp < t)
      audOk == "aud" \notin DOMAIN c \/ audience[1] \in Range(c.aud.vals)
      issOk == "iss" \in DOMAIN c /\ c.iss = issuer[1]
      subOk == ~("sub" \in DOMAIN c /\ c.sub.type # "str")
      jtiOk == ~("jti" \in DOMAIN c /\ c.jti.type # "str")
      s1 == <<"signature">>
      s2 == s1 \o <<"iat">>
      s3 == s2 \o <<"nbf">>
      s4 == s3 \o <<"expiry">>
      s5 == IF audience = None THEN s4 ELSE s4 \o <<"audience">>
      s6 == IF issuer = None THEN s5 ELSE s5 \o <<"issuer">>
      s7 == s6 \o <<"sub">>
      s8 == s7 \o <<"jti">>
      Raise(type, msg, steps) ==
        [raised |-> Some(Exc(type, msg)), claims |-> None, steps |-> steps]
  IN  IF ~algOk
      THEN Raise("JWTError", "The specified alg value is not allowed", s1)
      ELSE IF ~sigOk
      THEN Raise("JWTError", "Signature verification failed.", s1)
      ELSE IF ~iatOk
      THEN Raise("JWTClaimsError", "Issued At claim (iat) must be an integer.", s2)
      ELSE IF ~nbfOk
      THEN Raise("JWTClaimsError", "The token is not yet valid (nbf)", s3)
      ELSE IF ~expOk
      THEN Raise("ExpiredSignatureError", "Signature has expired.", s4)
      ELSE IF audience # None /\ ~audOk
      THEN Raise("JWTClaimsError", "Invalid audience", s5)
      ELSE IF issuer # None /\ ~issOk
      THEN Raise("JWTClaimsError", "Invalid issuer", s6)
      ELSE IF ~subOk
      THEN Raise("JWTClaimsError", "Subject must be a string.", s7)
      ELSE IF ~jtiOk
      THEN Raise("JWTClaimsError", "JWT ID must be a string.", s8)
      ELSE [raised |-> None, claims |-> Some(c), steps |-> s8]

\* AzpMissing with "multiple audiences" read as two or more entries.
AzpMissing_TwoOrMore(id_token) ==
  /\ "aud" \in DOMAIN id_token
  /\ id_token.aud.isList
  /\ Len(id_token.aud.vals) >= 2
  /\ "azp" \notin DOMAIN id_token

\* The authorized-party rule on the decoded claims: raises JWTError when
\* `aud` is a list with one or more entries and `azp` is absent.
AzpMissing(id_token) ==
  /\ "aud" \in DOMAIN id_token
  /\ id_token.aud.isList
  /\ Len(id_token.aud.vals) >= 1
  /\ "azp" \notin DOMAIN id_token

AzpMsg == "Missing authorized party \"azp\" in IDToken when there are multiple audiences"

\* ScopesOk that forgets the statically configured scopes.
ScopesOk_EndpointOnly(static_scopes, security_scopes, id_token) ==
  Range(security_scopes)
    \subseteq Range(Split(IF "scope" \in DOMAIN id_token THEN id_token.scope
                          ELSE <<>>))

\* expected_scopes.issubset(token_scopes)
ScopesOk(static_scopes, security_scopes, id_token) ==
  LET expected_scopes == Range(static_scopes \o security_scopes)
      token_scopes == Split(IF "scope" \in DOMAIN id_token THEN id_token.scope
                            ELSE <<>>)
  IN  expected_scopes \subseteq Range(token_scopes)

-----------------------------------------------------------------------------
(* Auth.authenticate_user, Auth.required, Auth.optional *)

Http(status, detail) ==
  [kind |-> "http", status |-> status, exc |-> "HTTPException",
   detail |-> detail, claims |-> None]

\* An exception that leaves the entry point without being turned into an
\* HTTPException.
Fault(e) ==
  [kind |-> "fault", status |-> 0, exc |-> e.type, detail |-> <<e.msg>>,
   claims |-> None]

NoIdentity ==
  [kind |-> "none", status |-> 0, exc |-> "", detail |-> <<>>, claims |-> None]

\* Identity built from the standard claims only.
Identity_StandardClaims(idtoken_model, id_token) ==
  IF ~(idtoken_model.required \subseteq DOMAIN id_token)
  THEN Fault(Exc("ValidationError", "field required"))
  ELSE [kind |-> "identity", status |-> 0, exc |-> "", detail |-> <<>>,
        claims |-> Some([k \in DOMAIN id_token \cap {"exp", "iss", "aud", "azp"} |->
                           id_token[k]])]

\* self.idtoken_model(**id_token): the identity record built from the whole
\* claim mapping; the constructor raises a validation error when a claim
\* the record type requires is missing.
Identity(idtoken_model, id_token) ==
  IF ~(idtoken_model.required \subseteq DOMAIN id_token)
  THEN Fault(Exc("ValidationError", "field required"))
  ELSE [kind |-> "identity", status |-> 0, exc |-> "", detail |-> <<>>,
        claims |-> Some(id_token)]

\* The call has not returned: it is inside the named read of the cache,
\* made with argument arg (the discovery document passed to public_keys).
Blocked(read, arg) ==
  [kind |-> "blocked", status |-> 0, exc |-> "", detail |-> <<read>>,
   claims |-> arg]

\* OAuthFlows for the default grant_types ([GrantType.IMPLICIT]).
Flows(authorizationUrl) ==
  [kind |-> "flows", status |-> 0, exc |-> "", detail |-> <<authorizationUrl>>,
   claims |-> None]

\* What a call has done: its outcome, the stages it ran (the last one is
\* the one that ended the call, or the one it is in), the key the lookup
\* returned and the claims decode returned.
Result(out, trace, key, id_token) ==
  [out |-> out, trace |-> trace, key |-> key, id_token |-> id_token]

\* The part of authenticate_user after the key lookup: jwt.decode and the
\* authorized-party rule inside the try block, then the scope check and the
\* construction of the identity record.
VerifyAndAuthorize(cfg, security_scopes, token, key, algorithms, t, trace0) ==
  The({ IF dec.raised # None
        THEN Result(IF CaughtAsJWTError(dec.raised[1])
                    THEN Http(401, <<"Unauthorized", dec.raised[1].msg>>)
                    ELSE Fault(dec.raised[1]),
                    trace0 \o dec.steps, Some(key), None)
        ELSE IF AzpMissing(dec.claims[1])
        THEN Result(Http(401, <<"Unauthorized", AzpMsg>>),
                    trace0 \o dec.steps \o <<"azp">>, Some(key), dec.claims)
        ELSE IF ~ScopesOk(cfg.scopes, security_scopes, dec.claims[1])
        THEN Result(Http(401, <<"Missing scope token">>),
                    trace0 \o dec.steps \o <<"azp", "scope">>, Some(key),
                    dec.claims)
        ELSE Result(Identity(cfg.idtoken_model, dec.claims[1]),
                    trace0 \o dec.steps \o <<"azp", "scope">>, Some(key),
                    dec.claims) :
        dec \in { jwt_decode(token, key, algorithms, cfg.issuer,
                             cfg.client_id, t) } })

\* The part of authenticate_user from line 270 on: the signing algorithms of
\* the document read at line 264 (doc), the key lookup (obs: what its reads
\* have returned so far), and the rest, run at time t.
AfterMetadata(cfg, security_scopes, token, doc, obs, t) ==
  The({ IF f.waits # None
        THEN Result(Blocked(f.waits[1].read, f.waits[1].arg),
                    <<"scheme", "metadata", "key_lookup">>, None, None)
        ELSE IF f.raised # None
        THEN Result(Fault(f.raised[1]),
                    <<"scheme", "metadata", "key_lookup">>, None, None)
        ELSE VerifyAndAuthorize(cfg, security_scopes, token, f.key[1],
                                signing_algos(doc), t,
                                <<"scheme", "metadata", "key_lookup">>) :
        f \in { _find_key(token, obs) } })

\* authenticate_user(security_scopes, authorization_credentials, auto_error)
\* given what its reads of the cache have returned so far (obs, in order:
\* line 264, line 204, line 208): the outcome of the call, or the read it is
\* blocked in.  t is the time at which the code after the last read runs.
authenticate_user(cfg, security_scopes, cred, auto_error, obs, t) ==
  IF cred = None \/ Lower(cred[1].scheme) # bearer
  THEN Result(IF auto_error THEN Http(401, <<"Missing bearer token">>)
              ELSE NoIdentity,
              <<"scheme">>, None, None)
  ELSE IF Len(obs) = 0
  THEN Result(Blocked("auth_server", None), <<"scheme", "metadata">>, None, None)
  ELSE IF ~obs[1].ok
  THEN Result(Http(503, <<"Could not reach auth server">>),
              <<"scheme", "metadata">>, None, None)
  ELSE AfterMetadata(cfg, security_scopes, cred[1].credentials,
                     obs[1].val[1], Tail(obs), t)

\* Auth.required
required(cfg, security_scopes, cred, obs, t) ==
  The({ IF r.out.kind = "none" THEN [r EXCEPT !.out = Http(401, <<>>)] ELSE r :
        r \in { authenticate_user(cfg, security_scopes, cred, TRUE, obs, t) } })

\* optional that also turns a 401 of the shared routine into None.
optional_Lenient(cfg, security_scopes, cred, obs, t) ==
  The({ IF r.out.kind = "http" /\ r.out.status = 401
        THEN [r EXCEPT !.out = NoIdentity] ELSE r :
        r \in { authenticate_user(cfg, security_scopes, cred, FALSE, obs, t) } })

\* Auth.optional
optional(cfg, security_scopes, cred, obs, t) ==
  authenticate_user(cfg, security_scopes, cred, FALSE, obs, t)

\* Auth.get_flows, given what its read of the discovery document returned:
\* the flows built from the document; a ConnectionError is not handled here.
get_flows(obs) ==
  IF ~obs[1].ok
  THEN Result(Fault(Exc("ConnectionError", "connection failed")), <<>>, None, None)
  ELSE Result(Flows(authorization_url(obs[1].val[1])), <<>>, None, None)

-----------------------------------------------------------------------------
(* State *)

VARIABLES
  cfg,      \* issuer, client_id, scopes and idtoken_model of the Auth instance
  remote,   \* the JWKS payload the provider serves
  net,      \* reachability of the provider
  now,      \* the wall clock
  cache,    \* the metadata cache of the instance
  fetches,  \* the times at which the provider served a discovery document
            \* (d) and a JWKS (j) that the cache stored
  calls,    \* the calls in flight, by worker thread (None: the thread is idle)
  last      \* the call that has just returned (None otherwise)

vars == <<cfg, remote, net, now, cache, fetches, calls, last>>

\* The worker threads that run the entry points.
Callers == {"A", "B"}

\* The requests (credential, endpoint scopes) made of an instance with
\* configuration c whose provider serves the JWKS j.
Requests(c, j) ==
  { <<None, <<>>>> }
  \cup { <<Cred(s, GoodToken), <<>>>> : s \in Schemes }
  \cup (IF c = DefaultCfg
        THEN { <<Cred(bearer, t), <<>>>> : t \in KeyTokens }
        ELSE {})
  \cup (IF j = StdJwks /\ c = DefaultCfg
        THEN { <<Cred(bearer, t), <<>>>> : t \in LibraryTokens }
        ELSE {})
  \cup (IF c = OpenCfg
        THEN { <<Cred(bearer, t), <<>>>> : t \in OpenModelTokens }
        ELSE {})
  \cup (IF j = StdJwks /\ c.scopes = <<>> /\ c # OpenCfg
        THEN { <<Cred(bearer, t), <<>>>> : t \in ClaimTokens }
        ELSE {})
  \cup (IF j = StdJwks /\ (c = DefaultCfg \/ c.scopes # <<>>)
        THEN { <<Cred(bearer, t), <<ScopeR>>>> : t \in DefectiveTokens }
             \cup { <<Cred(bearer, t), sc>> :
                      t \in ScopeTokens, sc \in EndpointScopes }
        ELSE {})

\* The requests of calls that overlap in time.
OverlapRequests == { <<Cred(bearer, GoodToken), <<>>>> }

NoFetches == [d |-> <<>>, j |-> <<>>]

\* The fetches served so far, after a read x made at time t: a read that
\* returned has stored what it fetched.
Stored(f, x, t) ==
  [d |-> IF x.ok /\ x.fd = 1 THEN Append(f.d, t) ELSE f.d,
   j |-> IF x.ok /\ x.fj = 1 THEN Append(f.j, t) ELSE f.j]

\* Auth.__init__: discovery.configure gives the instance an empty cache and
\* get_flows reads the discovery document once; a ConnectionError is logged
\* and the instance is built all the same.
Init ==
  /\ cfg \in Configs
  /\ remote \in JwksPayloads
  /\ cfg = DefaultCfg \/ remote = StdJwks
  /\ net \in NetStates
  /\ now = 0
  /\ \E x \in { discover("auth_server", None, EmptyCache, 0, net, remote) } :
       /\ cache = x.cache
       /\ fetches = Stored(NoFetches, x, 0)
  /\ calls = [c \in Callers |-> None]
  /\ last = None

\* The entry point of frame f, run on what the reads of f have returned.
EntryPoint(f) ==
  IF f.mode = "required" THEN required(cfg, f.scopes, f.cred, f.reads, now)
  ELSE optional(cfg, f.scopes, f.cred, f.reads, now)

\* Thread c runs the code of frame f up to its next read of the cache, where
\* it blocks, or up to the end of the call.
Advance(c, f) ==
  \E r \in { EntryPoint(f) } :
    IF r.out.kind = "blocked"
    THEN /\ calls' = [calls EXCEPT ![c] = Some(f)]
         /\ last' = None
    ELSE /\ calls' = [calls EXCEPT ![c] = None]
         /\ last' = Some([mode |-> f.mode, cred |-> f.cred, scopes |-> f.scopes,
                          at |-> now, reads |-> f.reads,
                          out |-> r.out, trace |-> r.trace, key |-> r.key,
                          id_token |-> r.id_token])

\* A request arrives: an idle thread starts a call of Auth.required or
\* Auth.optional and runs it up to its first read of the cache (line 264),
\* or to its end when the scheme check (lines 252-261) ends it.  Thread B
\* takes a request only while thread A is busy.
Start(c, mode, rq) ==
  /\ last = None
  /\ calls[c] = None
  /\ c = "B" => calls["A"] # None
  /\ \A o \in Callers \ {c} :
       calls[o] # None =>
         /\ rq \in OverlapRequests
         /\ <<calls[o][1].cred, calls[o][1].scopes>> \in OverlapRequests
  /\ Advance(c, [mode |-> mode, cred |-> rq[1], scopes |-> rq[2],
                 reads |-> <<>>])
  /\ UNCHANGED <<cfg, remote, net, now, cache, fetches>>

Begin ==
  \E c \in Callers, mode \in {"required", "optional"},
     rq \in Requests(cfg, remote) : Start(c, mode, rq)

\* Thread c makes the read of the cache it is blocked in (line 264, 204 or
\* 208) and runs on to its next read or to the end of the call.
Read(c) ==
  /\ last = None
  /\ calls[c] # None
  /\ \E f \in { calls[c][1] } :
       \E b \in { EntryPoint(f).out } :
         \E x \in { discover(b.detail[1], b.claims, cache, now, net, remote) } :
           /\ cache' = x.cache
           /\ fetches' = Stored(fetches, x, now)
           /\ Advance(c, [f EXCEPT !.reads =
                                     Append(@, Observed(b.detail[1], x, now))])
  /\ UNCHANGED <<cfg, remote, net, now>>

Step == \E c \in Callers : Read(c)

\* A call of Auth.get_flows on the built instance: one read of the cache.
GetFlows ==
  /\ last = None
  /\ \E x \in { discover("auth_server", None, cache, now, net, remote) } :
       \E o \in { <<Observed("auth_server", x, now)>> } :
         \E r \in { get_flows(o) } :
           /\ cache' = x.cache
           /\ fetches' = Stored(fetches, x, now)
           /\ last' = Some([mode |-> "get_flows", cred |-> None, scopes |-> <<>>,
                            at |-> now, reads |-> o,
                            out |-> r.out, trace |-> r.trace, key |-> r.key,
                            id_token |-> r.id_token])
  /\ UNCHANGED <<cfg, remote, net, now, calls>>

\* The response has been delivered.
Return ==
  /\ last # None
  /\ last' = None
  /\ UNCHANGED <<cfg, remote, net, now, cache, fetches, calls>>

\* The clock advances.
Tick ==
  /\ last = None
  /\ now < MaxTime
  /\ now' = now + 1
  /\ UNCHANGED <<cfg, remote, net, cache, fetches, calls, last>>

\* The provider becomes reachable or unreachable.
SetNet ==
  /\ last = None
  /\ \E n \in NetStates \ {net} : net' = n
  /\ UNCHANGED <<cfg, remote, now, cache, fetches, calls, last>>

Next == Begin \/ Step \/ GetFlows \/ Return \/ Tick \/ SetNet

Spec == Init /\ [][Next]_vars

-----------------------------------------------------------------------------
(* Vocabulary of the properties.  These definitions describe a call from   *)
(* its inputs and from what its reads of the cache returned, without using *)
(* the operators that model the code.                                      *)

L == last[1]

\* A call of Auth.required or Auth.optional has just returned.
Returned == last # None /\ L.mode \in {"required", "optional"}

\* "bearer" in any mix of upper and lower case.
SpellsBearer(s) ==
  /\ Len(s) = 6
  /\ s[1] \in {"b", "B"} /\ s[2] \in {"e", "E"} /\ s[3] \in {"a", "A"}
  /\ s[4] \in {"r", "R"} /\ s[5] \in {"e", "E"} /\ s[6] \in {"r", "R"}

HasBearer(c) == c.cred # None /\ SpellsBearer(c.cred[1].scheme)

Tok(c) == c.cred[1].credentials

\* The time at which the call ended (and at which the token was decoded).
EndTime(c) == c.at

Has(c, k) == k \in DOMAIN Tok(c).payload

\* The token of the call has expired when the call ends.
Expired(c) == Has(c, "exp") /\ Tok(c).payload.exp < EndTime(c)

\* The identity-record type of the instance accepts the claims: none of the
\* claims it requires is missing.
Constructible(claims) == cfg.idtoken_model.required \subseteq DOMAIN claims

\* The constructor of the identity record raised its validation error.
ConstructionFailed(c) == c.out.kind = "fault" /\ c.out.exc = "ValidationError"

\* A read of the call found the provider unreachable (it raised
\* ConnectionError).
ReadFailed(c, i) == i <= Len(c.reads) /\ ~c.reads[i].ok

\* The JWKS the key lookup of the call read (its read at line 208).
JwksRead(c) == c.reads[3].val[1]

RECURSIVE Sent(_, _)
\* The requests of one kind ("fd": discovery document, "fj": JWKS) that the
\* reads in `reads` sent.
Sent(reads, kind) ==
  IF reads = <<>> THEN 0
  ELSE (IF kind = "fd" THEN Head(reads).fd ELSE Head(reads).fj)
       + Sent(Tail(reads), kind)

\* n is one of the pieces of str between single spaces.
IsPiece(n, str) ==
  \E i \in 1..(Len(str) + 1) :
    /\ i = 1 \/ str[i - 1] = " "
    /\ i + Len(n) = Len(str) + 1 \/ (i + Len(n) <= Len(str) /\ str[i + Len(n)] = " ")
    /\ \A j \in 1..Len(n) : n[j] # " " /\ str[i + j - 1] = n[j]

ScopeString(claims) == IF "scope" \in DOMAIN claims THEN claims.scope ELSE <<>>

\* requiredScopes: configured scopes and the endpoint's scopes together.
RequiredScopes(c) == Range(cfg.scopes) \cup Range(c.scopes)

CarriesScopes(c, claims) ==
  \A n \in RequiredScopes(c) : IsPiece(n, ScopeString(claims))

ListAudNoAzp(claims) ==
  /\ "aud" \in DOMAIN claims /\ claims.aud.isList /\ claims.aud.vals # <<>>
  /\ "azp" \notin DOMAIN claims

RejectedAs(c, status, detail) ==
  c.out.kind = "http" /\ c.out.status = status /\ c.out.detail = detail

HasKid(k) == "kid" \in DOMAIN k

Matches(keys, kid) == { i \in 1..Len(keys) : HasKid(keys[i]) /\ keys[i].kid = kid }

Kidless(keys) == { i \in 1..Len(keys) : ~HasKid(keys[i]) }

Min(S) == CHOOSE i \in S : \A j \in S : i <= j

\* The JWKS holds no key the lookup can return for the token: no "keys", no
\* kid in the header, no matching entry, or an entry without kid before the
\* first matching one.
NoKeyFor(jwks, token) ==
  \/ "keys" \notin DOMAIN jwks
  \/ ~HasKid(token.header)
  \/ Matches(jwks.keys, token.header.kid) = {}
  \/ \E j \in Kidless(jwks.keys) : j < Min(Matches(jwks.keys, token.header.kid))

FirstMatch(jwks, token) == jwks.keys[Min(Matches(jwks.keys, token.header.kid))]

\* A read of the key lookup (line 204 or 208) found the provider
\* unreachable.
LookupCutShort(c) == ReadFailed(c, 2) \/ ReadFailed(c, 3)

-----------------------------------------------------------------------------
(* C1 *)

\* C1: a token whose verified claims carry `aud` as a list with one or more
\* entries and no `azp` is rejected (401, missing authorized party) by the
\* required and by the optional entry point, whatever client_id is
\* configured; a token whose `aud` is a string, or whose `aud` is a list
\* with `azp` present, is never rejected for that reason.
C1_AzpRule ==
  (Returned /\ L.id_token # None) =>
    IF ListAudNoAzp(L.id_token[1])
    THEN RejectedAs(L, 401, <<"Unauthorized", AzpMsg>>)
    ELSE L.out.detail # <<"Unauthorized", AzpMsg>>

\* An optional call, with client_id "a" configured, whose token verified
\* with aud = ["a", "b"] and no azp.
C1_Witness ==
  /\ Returned /\ L.id_token # None /\ L.mode = "optional"
  /\ cfg.client_id = Some("a")
  /\ ListAudNoAzp(L.id_token[1]) /\ L.id_token[1].aud.vals = <<"a", "b">>
  /\ L.out.status = 401

-----------------------------------------------------------------------------
(* C2 *)

\* C2: when the credential is absent or its scheme is not "bearer" in any
\* letter case, the optional entry point returns None and the required one
\* raises 401; the call runs the scheme check only: it makes no read of the
\* cache (so sends no request), looks up no key and decodes no token.  A
\* scheme that spells "bearer" in any case is not treated as missing.
C2_NoCredential ==
  Returned =>
    IF HasBearer(L)
    THEN Len(L.trace) > 1 /\ L.out.kind # "none"
    ELSE /\ L.mode = "optional" => L.out = NoIdentity
         /\ L.mode = "required" => (L.out.kind = "http" /\ L.out.status = 401)
         /\ L.trace = <<"scheme">>
         /\ L.reads = <<>>
         /\ L.key = None /\ L.id_token = None

\* A required call with a "Basic" credential while the cache is empty.
C2_Witness ==
  /\ Returned /\ L.mode = "required" /\ L.cred # None /\ ~HasBearer(L)
  /\ cache = EmptyCache /\ L.out.status = 401

-----------------------------------------------------------------------------
(* C3 *)

\* The same request made of the other entry point, with the cache
\* answering its reads as it answered the reads of the call.
OtherMode(c) ==
  IF c.mode = "required"
  THEN optional(cfg, c.scopes, c.cred, c.reads, c.at)
  ELSE required(cfg, c.scopes, c.cred, c.reads, c.at)

\* C3: for a supplied bearer credential, in every provider and cache state,
\* the optional entry point yields exactly what the required one yields (the
\* same Identity or the same failure, after the same stages and the same
\* reads of the cache), and never None.
C3_OptionalOnlyDowngradesAbsence ==
  (Returned /\ HasBearer(L)) =>
    /\ L.out.kind # "none"
    /\ The({ o.out = L.out /\ o.trace = L.trace : o \in { OtherMode(L) } })

\* An optional call with an expired token, rejected with 401.
C3_Witness ==
  /\ Returned /\ HasBearer(L) /\ L.mode = "optional"
  /\ Expired(L)
  /\ RejectedAs(L, 401, <<"Unauthorized", "Signature has expired.">>)

-----------------------------------------------------------------------------
(* C4 *)

KidAbsent(c) ==
  /\ "keys" \in DOMAIN JwksRead(c)
  /\ "kid" \in DOMAIN Tok(c).header
  /\ \A i \in 1..Len(JwksRead(c).keys) :
       "kid" \in DOMAIN JwksRead(c).keys[i]
       /\ JwksRead(c).keys[i].kid # Tok(c).header.kid

\* C4: a call whose token names a kid that no entry of the JWKS carries ends
\* in a rejection raised for the caller (an HTTPException), not in an
\* exception that leaves the entry point unhandled.
C4_KeyNotFoundIsRejection ==
  (/\ Returned /\ HasBearer(L)
   /\ Len(L.reads) = 3 /\ L.reads[3].ok
   /\ KidAbsent(L))
    => L.out.kind = "http"

-----------------------------------------------------------------------------
(* C5 *)

\* C5: a call one of whose reads of the cache found the provider
\* unreachable, in the fetch of the discovery document or of the JWKS, ends
\* with 503 "Could not reach auth server", raised by the guarded metadata
\* read and never by the key lookup.
C5_UnreachableIs503 ==
  (Returned /\ \E i \in 1..Len(L.reads) : ReadFailed(L, i)) =>
    /\ RejectedAs(L, 503, <<"Could not reach auth server">>)
    /\ L.trace = <<"scheme", "metadata">>

-----------------------------------------------------------------------------
(* C6 *)

\* C6: once the claims are verified and the authorized-party rule passed,
\* the scope check passes (the call goes on to build the Identity, and
\* returns it when the identity record accepts the claims) exactly when
\* every scope configured on the instance or declared by the endpoint is
\* one of the pieces of the token's scope string between single spaces (a
\* missing scope claim is the empty string); no required scope at all
\* always passes; otherwise the call is rejected with 401 "Missing scope
\* token" instead of returning an Identity.
C6_ScopeSubset ==
  (Returned /\ L.id_token # None /\ ~ListAudNoAzp(L.id_token[1])) =>
    IF CarriesScopes(L, L.id_token[1])
    THEN IF Constructible(L.id_token[1])
         THEN L.out.kind = "identity" /\ L.out.claims = L.id_token
         ELSE ConstructionFailed(L)
    ELSE RejectedAs(L, 401, <<"Missing scope token">>)

\* A call that passed with scope "w r" where "w" is configured and "r" is
\* declared by the endpoint.
C6_Witness ==
  /\ Returned /\ L.out.kind = "identity"
  /\ cfg.scopes = <<ScopeW>> /\ L.scopes = <<ScopeR>>
  /\ L.id_token[1].scope = <<"w", " ", "r">>

-----------------------------------------------------------------------------
(* The stages of a call *)

Advertised == Range(ProviderMeta.id_token_signing_alg_values_supported)

\* The stages in the order the claim gives, and in the order that differs
\* from it in the two checks after the expiry check.  Between the checks the
\* claim names stand the validations of iat, nbf, sub and jti that
\* jwt.decode makes as well.
StagesAsStated ==
  <<"scheme", "metadata", "key_lookup", "signature", "iat", "nbf", "expiry",
    "issuer", "audience", "sub", "jti", "azp", "scope">>

StagesAmended ==
  <<"scheme", "metadata", "key_lookup", "signature", "iat", "nbf", "expiry",
    "audience", "issuer", "sub", "jti", "azp", "scope">>

\* A check that is switched off by the configuration is no stage of the call.
StageApplies(st) ==
  CASE st = "issuer" -> cfg.issuer # None
    [] st = "audience" -> cfg.client_id # None
    [] OTHER -> TRUE

\* Whether stage st fails for call c, from the inputs of the call and what
\* the cache returned to it.
StageFails(c, st) ==
  CASE st = "scheme" -> ~HasBearer(c)
    [] st = "metadata" -> ReadFailed(c, 1)
    [] st = "key_lookup" -> LookupCutShort(c) \/ NoKeyFor(JwksRead(c), Tok(c))
    [] st = "signature" ->
         \/ Tok(c).header.alg \notin Advertised
         \/ FirstMatch(JwksRead(c), Tok(c)).n # Tok(c).signer
    [] st = "iat" -> Has(c, "iat") /\ Tok(c).payload.iat.type # "int"
    [] st = "nbf" -> Has(c, "nbf") /\ Tok(c).payload.nbf > EndTime(c)
    [] st = "expiry" -> Expired(c)
    [] st = "issuer" -> ~Has(c, "iss") \/ Tok(c).payload.iss # cfg.issuer[1]
    [] st = "audience" ->
         Has(c, "aud") /\ cfg.client_id[1] \notin Range(Tok(c).payload.aud.vals)
    [] st = "sub" -> Has(c, "sub") /\ Tok(c).payload.sub.type # "str"
    [] st = "jti" -> Has(c, "jti") /\ Tok(c).payload.jti.type # "str"
    [] st = "azp" -> ListAudNoAzp(Tok(c).payload)
    [] st = "scope" -> ~CarriesScopes(c, Tok(c).payload)

\* The outcome that reports the failure of stage st.
ReportsFailureOf(c, st) ==
  CASE st = "scheme" ->
         IF c.mode = "required" THEN RejectedAs(c, 401, <<"Missing bearer token">>)
         ELSE c.out = NoIdentity
    [] st = "metadata" -> RejectedAs(c, 503, <<"Could not reach auth server">>)
    [] st = "key_lookup" -> c.out.kind = "fault" /\ c.key = None
    [] st = "signature" ->
         IF Tok(c).header.alg \notin Advertised
         THEN RejectedAs(c, 401, <<"Unauthorized",
                                   "The specified alg value is not allowed">>)
         ELSE RejectedAs(c, 401, <<"Unauthorized", "Signature verification failed.">>)
    [] st = "iat" ->
         RejectedAs(c, 401, <<"Unauthorized",
                              "Issued At claim (iat) must be an integer.">>)
    [] st = "nbf" ->
         RejectedAs(c, 401, <<"Unauthorized", "The token is not yet valid (nbf)">>)
    [] st = "expiry" ->
         RejectedAs(c, 401, <<"Unauthorized", "Signature has expired.">>)
    [] st = "issuer" -> RejectedAs(c, 401, <<"Unauthorized", "Invalid issuer">>)
    [] st = "audience" -> RejectedAs(c, 401, <<"Unauthorized", "Invalid audience">>)
    [] st = "sub" ->
         RejectedAs(c, 401, <<"Unauthorized", "Subject must be a string.">>)
    [] st = "jti" ->
         RejectedAs(c, 401, <<"Unauthorized", "JWT ID must be a string.">>)
    [] st = "azp" -> RejectedAs(c, 401, <<"Unauthorized", AzpMsg>>)
    [] st = "scope" -> RejectedAs(c, 401, <<"Missing scope token">>)

\* The stages a call runs when it takes them in the given order, each once,
\* and stops at the first that fails.
RECURSIVE RunsUntilFailure(_, _, _)
RunsUntilFailure(c, order, i) ==
  IF i > Len(order) THEN <<>>
  ELSE IF ~StageApplies(order[i]) THEN RunsUntilFailure(c, order, i + 1)
  ELSE IF StageFails(c, order[i]) THEN <<order[i]>>
  ELSE <<order[i]>> \o RunsUntilFailure(c, order, i + 1)

\* The call ran the stages of `order` in that order, each at most once, up
\* to the first that failed; its outcome reports that failure; it returned
\* an Identity only when it ran them all and none failed (and then it did,
\* unless the identity record refused the claims).
FollowsOrder(c, order) ==
  /\ c.trace = RunsUntilFailure(c, order, 1)
  /\ LET end == c.trace[Len(c.trace)]
     IN  IF StageFails(c, end)
         THEN ReportsFailureOf(c, end)
         ELSE /\ end = "scope"
              /\ IF Constructible(Tok(c).payload) THEN c.out.kind = "identity"
                 ELSE ConstructionFailed(c)

\* The key lookup of the call ran to its end (it was not cut short by a
\* failed refresh of the cache).
LookupRan(c) == Len(c.reads) = 3 /\ c.reads[3].ok

-----------------------------------------------------------------------------
(* C7 *)

\* Any two fetches in the list are more than the TTL apart: no TTL window
\* holds two of them.
Apart(times) ==
  \A i, j \in 1..Len(times) :
    i < j => times[j] - times[i] > signature_cache_ttl

\* Some fetch in the list was made within the TTL before now.
Recent(times) ==
  \E i \in 1..Len(times) :
    times[i] <= now /\ now - times[i] <= signature_cache_ttl

\* The reads of the cache made in a step: by a call that goes on or returns,
\* or by get_flows.
NewReads ==
  { calls'[c][1].reads[Len(calls'[c][1].reads)] :
      c \in { k \in Callers :
                /\ calls[k] # None /\ calls'[k] # None
                /\ Len(calls'[k][1].reads) > Len(calls[k][1].reads) } }
  \cup (IF last = None /\ last' # None /\ last'[1].reads # <<>>
        THEN { last'[1].reads[Len(last'[1].reads)] }
        ELSE {})

\* What a read returns was fetched within the TTL before the read: a read
\* made after the TTL has elapsed is served by a new fetch.
ServedFresh ==
  \A r \in NewReads :
    r.ok => IF r.read = "auth_server" THEN Recent(fetches'.d)
            ELSE Recent(fetches'.j)

\* The calls on the instance (and its constructor and get_flows), taken
\* together, fetch the discovery document once per TTL window at most, and
\* the JWKS once per TTL window at most.
OneFetchPerWindow == Apart(fetches.d) /\ Apart(fetches.j)

\* A call with a bearer credential reads the discovery document at line
\* 264, reads it again in the key lookup (line 204) and then reads the JWKS
\* (line 208); it stops at the first read that fails.
ReadsAsCoded ==
  (Returned /\ HasBearer(L)) =>
    /\ Len(L.reads) \in 1..3
    /\ \A i \in 1..Len(L.reads) :
         /\ L.reads[i].read = <<"auth_server", "auth_server", "public_keys">>[i]
         /\ i < Len(L.reads) => L.reads[i].ok
    /\ Len(L.reads) < 3 => ~L.reads[Len(L.reads)].ok

\* The requests of one kind that a call sent are more than the TTL apart:
\* a call whose reads lie within one TTL sends each request once at most.
CallFetchesApart ==
  Returned =>
    \A i, j \in 1..Len(L.reads) :
      i < j =>
        /\ (L.reads[i].fd = 1 /\ L.reads[j].fd = 1) =>
             L.reads[j].sentAt[1] - L.reads[i].sentAt[1] > signature_cache_ttl
        /\ (L.reads[i].fj = 1 /\ L.reads[j].fj = 1) =>
             L.reads[j].sentAt[1] - L.reads[i].sentAt[1] > signature_cache_ttl

\* No call whose reads all found the provider reachable sent either request
\* twice.
NoCallFetchesTwice ==
  (Returned /\ \A i \in 1..Len(L.reads) : L.reads[i].ok) =>
    Sent(L.reads, "fd") <= 1 /\ Sent(L.reads, "fj") <= 1

\* C7 as stated: one fetch of each document per TTL window in total, one
\* more once the TTL has elapsed, two reads of the metadata per call, and
\* no call fetches the discovery document or the JWKS more than once,
\* however long the call lasts.
C7_AsStated ==
  /\ [](OneFetchPerWindow /\ ReadsAsCoded /\ NoCallFetchesTwice)
  /\ [][ServedFresh]_vars

\* C7, amended: the calls on one instance fetch, in total, the discovery
\* document once and the JWKS once per TTL window at most; what a read
\* returns was fetched within the TTL before it, so the first read after the
\* TTL has elapsed triggers one more fetch; a call reads the discovery
\* document twice (lines 264 and 204) and then the JWKS (line 208); and a
\* call sends the same request twice only when its reads are more than the
\* TTL apart.
C7_OneFetchPerWindowInTotal ==
  /\ [](OneFetchPerWindow /\ ReadsAsCoded /\ CallFetchesApart)
  /\ [][ServedFresh]_vars

\* A call made after the TTL of the documents fetched at construction had
\* elapsed: its first read fetched the discovery document and the JWKS once
\* more, its two later reads sent nothing.
C7_Witness ==
  /\ Returned /\ Len(L.reads) = 3 /\ L.reads[3].ok
  /\ fetches = [d |-> <<0, signature_cache_ttl + 1>>,
                j |-> <<0, signature_cache_ttl + 1>>]
  /\ L.reads[1].fd = 1 /\ L.reads[1].fj = 1
  /\ Sent(L.reads, "fd") = 1 /\ Sent(L.reads, "fj") = 1

-----------------------------------------------------------------------------
(* C8 *)

\* The key material that signed the token is that of a key of the JWKS the
\* call read from the cache.
SignedByCachedKey(c) ==
  /\ LookupRan(c)
  /\ "keys" \in DOMAIN JwksRead(c)
  /\ \E i \in 1..Len(JwksRead(c).keys) : JwksRead(c).keys[i].n = Tok(c).signer

\* `exp` lies in the future when the call ends.
ExpInFuture(c) == Has(c, "exp") /\ Tok(c).payload.exp > EndTime(c)

\* The token matches the configured issuer and the configured audience.
MatchesConfigured(c) ==
  /\ cfg.issuer # None => (Has(c, "iss") /\ Tok(c).payload.iss = cfg.issuer[1])
  /\ cfg.client_id # None =>
       (Has(c, "aud") /\ cfg.client_id[1] \in Range(Tok(c).payload.aud.vals))

\* A required call with a token as the claim describes it.
ValidToken(c) ==
  /\ c.mode = "required" /\ HasBearer(c)
  /\ SignedByCachedKey(c)
  /\ ExpInFuture(c)
  /\ MatchesConfigured(c)

\* The token is signed, with an algorithm the provider advertises, by the
\* key that the lookup returns for the kid of its header.
SignedByItsKey(c) ==
  /\ ~NoKeyFor(JwksRead(c), Tok(c))
  /\ FirstMatch(JwksRead(c), Tok(c)).n = Tok(c).signer
  /\ Tok(c).header.alg \in Advertised

\* The claims iat, nbf, sub and jti that the token carries pass the
\* validation jwt.decode makes of them.
OtherClaimsValid(c) ==
  \A st \in {"iat", "nbf", "sub", "jti"} : ~StageFails(c, st)

ReturnsIdentityOfClaims(c) ==
  c.out.kind = "identity" /\ c.out.claims = Some(Tok(c).payload)

\* C8 as stated: every token signed with a key present in the cached JWKS,
\* with `exp` in the future and matching the configured issuer and audience,
\* makes the required entry point return an Identity built from the token's
\* claims.
C8_AsStated == (Returned /\ ValidToken(L)) => ReturnsIdentityOfClaims(L)

\* C8, amended: every such token that is signed, with an advertised
\* algorithm, by the key the lookup returns for its kid, whose iat, nbf, sub
\* and jti claims (if present) are valid, that satisfies the
\* authorized-party rule (no list-valued `aud` without `azp`), carries every
\* required scope and has the claims the identity record requires, makes
\* the required entry point return an Identity built from the full claim
\* mapping of the token.
C8_ValidTokenAccepted ==
  (/\ Returned /\ ValidToken(L)
   /\ SignedByItsKey(L)
   /\ OtherClaimsValid(L)
   /\ ~ListAudNoAzp(Tok(L).payload)
   /\ CarriesScopes(L, Tok(L).payload)
   /\ Constructible(Tok(L).payload))
    => ReturnsIdentityOfClaims(L)

\* A required call accepted with aud = ["a", "b"], azp = "a" and client_id
\* "a" configured, the default identity record finding its claims.
C8_Witness ==
  /\ Returned /\ ValidToken(L) /\ ReturnsIdentityOfClaims(L)
  /\ cfg.client_id = Some("a") /\ cfg.idtoken_model = IDToken
  /\ "azp" \in DOMAIN Tok(L).payload
  /\ Tok(L).payload.aud = List(<<"a", "b">>)

-----------------------------------------------------------------------------
(* C9 *)

\* C9 as stated: the stages run in the order scheme check, metadata read,
\* key lookup, signature, expiry, issuer, audience, azp rule, scope check
\* (with the validations of iat and nbf before the expiry check and those of
\* sub and jti before the azp rule).
C9_AsStated == Returned => FollowsOrder(L, StagesAsStated)

\* C9, amended: every call runs its stages in the order scheme check,
\* metadata read, key lookup, signature, expiry, audience, issuer, azp rule,
\* scope check (with the validations of iat and nbf before the expiry check
\* and those of sub and jti before the azp rule); each stage runs at most
\* once, the outcome is the failure of the first stage that fails, no later
\* stage runs, and an Identity is returned only when every stage passed.
C9_StagesInOrder == Returned => FollowsOrder(L, StagesAmended)

\* A call whose token has both a wrong issuer and a wrong audience, with
\* both configured: it is rejected for the audience and the issuer check
\* does not run.
C9_Witness ==
  /\ Returned /\ HasBearer(L) /\ L.key # None
  /\ cfg.issuer # None /\ cfg.client_id # None
  /\ StageFails(L, "issuer") /\ StageFails(L, "audience")
  /\ L.trace[Len(L.trace)] = "audience"
  /\ RejectedAs(L, 401, <<"Unauthorized", "Invalid audience">>)

-----------------------------------------------------------------------------
(* C10 *)

KeyNotFound(c) ==
  c.key = None /\ c.out.kind = "fault" /\ c.out.exc \in {"JWKError", "JWTError"}

\* C10 as stated: the lookup fails whenever some JWKS entry lacks "kid",
\* wherever that entry stands.
C10_AsStated ==
  (Returned /\ LookupRan(L)) =>
    IF \/ "keys" \notin DOMAIN JwksRead(L)
       \/ ~HasKid(Tok(L).header)
       \/ Kidless(JwksRead(L).keys) # {}
       \/ Matches(JwksRead(L).keys, Tok(L).header.kid) = {}
    THEN KeyNotFound(L)
    ELSE L.key = Some(FirstMatch(JwksRead(L), Tok(L)))

\* C10, amended: the lookup returns the first entry, in JWKS order, whose
\* kid equals the kid of the token's header, and fails with KeyNotFound when
\* the JWKS payload lacks "keys", when the header lacks "kid", when no entry
\* matches, and when an entry without "kid" stands before the first matching
\* entry; an entry without "kid" after the first match is never looked at.
C10_FirstMatchWins ==
  (Returned /\ LookupRan(L)) =>
    IF NoKeyFor(JwksRead(L), Tok(L))
    THEN KeyNotFound(L)
    ELSE L.key = Some(FirstMatch(JwksRead(L), Tok(L)))

\* A lookup that returned the entry with kid "k1" from a JWKS whose next
\* entry has no "kid".
C10_Witness ==
  /\ Returned /\ LookupRan(L)
  /\ JwksRead(L) = [keys |-> <<K1, KNoKid>>]
  /\ L.key = Some(K1)

====
